---- MODULE Spec2Model ----
(***************************************************************************)
(* The MILP scheduling model of src/src/scheduling/setup_lp.py: the base   *)
(* model built by _define_lp, the simple and the extended setup-time       *)
(* extensions, and a solver that returns any variable assignment that      *)
(* satisfies every constraint of the model (or reports infeasibility).     *)
(*                                                                         *)
(* Jobs are 0..n with 0 the sentinel job "0"; machines are 1..m; the       *)
(* timesteps are 0..T-1 (list(range(timesteps))).                          *)
(*                                                                         *)
(* A second specification, SpecRead, covers _read_solution_file of         *)
(* src/data/example/solution_explorer.py on bounded solution files.  A     *)
(* third, SpecBase, covers the dispatch of set_up_base_lp on the type of   *)
(* its accelerators argument.                                              *)
(* SpecBuild builds the model and its extensions without solving and can   *)
(* build again from the same inputs; SpecAssemble covers assemble_circuit  *)
(* and assemble_job of src/src/tools/assembling.py; SpecProvider covers    *)
(* run_experiments and run_jobs of src/src/provider/accelerator_group.py   *)
(* with the worker processes of the pool interleaved.                      *)
(*                                                                         *)
(* Time values.  c_j and s_j are continuous in the code.  Constraints 7,   *)
(* 9 and 10 force them onto the first and last occupied timestep whenever  *)
(* a job occupies a timestep, so they are integers below T; a job without  *)
(* occupation has c = s - 1.  The model draws them from 0..T.              *)
(*                                                                         *)
(* Divisions by big_m are written multiplied out (big_m > 0).              *)
(***************************************************************************)
EXTENDS Integers, Sequences, FiniteSets, TLC

VARIABLES inst, lp, status, sol, data, df, job_data, accelerators, previous,
          circuit_jobs, composed_circuit, combined_job,
          group, experiments, scheduled_jobs, process_counter, tasks, call

\* the variables of the solution explorer (_read_solution_file)
explorerVars == <<data, df, job_data>>

\* the variables of assemble_circuit and assemble_job
assembleVars == <<circuit_jobs, composed_circuit, combined_job>>

\* the variables of AcceleratorGroup.run_experiments and run_jobs
providerVars == <<group, experiments, scheduled_jobs, process_counter, tasks, call>>

\* the variables of the other components
otherVars == <<previous, assembleVars, providerVars>>

vars == <<inst, lp, status, sol, data, df, job_data, accelerators, otherVars>>

(***************************************************************************)
(* Bounds of the input space.                                              *)
(***************************************************************************)
\* jobs + machines of a generated instance
MaxSize == 3
\* timesteps of a generated instance
NumTimesteps == 2
\* largest generated process time
MaxPTime == 1
\* largest generated pairwise setup time
MaxSetup == 2

\* big_m as the benchmark passes it and as set_up_extended_lp defaults it
BigM == 1000
\* default_value of _get_setup_times as the benchmark passes it (2**5)
DefaultSetup == 32

JobCapacities == {2, 3, 6}

(***************************************************************************)
(* Helpers                                                                 *)
(***************************************************************************)
RECURSIVE lpSum(_, _, _)
\* pulp.lpSum over the index range lo..hi of f
lpSum(f, lo, hi) == IF lo > hi THEN 0 ELSE f[lo] + lpSum(f, lo + 1, hi)

\* np.max over a non-empty set of numbers
npMax(S) == CHOOSE v \in S : \A w \in S : w <= v

\* the least element of a non-empty set of numbers
Least(S) == CHOOSE v \in S : \A w \in S : v <= w

RECURSIVE Product(_, _)
\* the sequences q of length k with q[i] \in S[i]
Product(S, k) ==
    IF k = 0 THEN {<<>>}
    ELSE {Append(q, e) : q \in Product(S, k - 1), e \in S[k]}

(***************************************************************************)
(* Inputs: benchmark.py generators and the scenarios of the specification  *)
(***************************************************************************)
\* np.random.random() * 10 of _calc_setup_times, drawn from the seed
Noise(seed, i, j, k) == (seed * (i + j + k)) % (MaxSetup + 1)

\* _calc_setup_times(job_i, job_j): job_j = 0 stands for None
CalcSetupTimes(capI, capJ, jIsNone, noise) ==
    IF jIsNone THEN 0 ELSE noise + (capI + capJ) \div 10

\* _get_setup_times: outer index id_j, then id_i, then the machine
GetSetupTimes(caps, n, m, default, seed) ==
    [idj \in 0..n |->
        [idi \in 0..n |->
            [k \in 1..m |->
                IF idi = idj \/ idi = 0
                THEN default
                ELSE CalcSetupTimes(caps[idi], IF idj = 0 THEN 0 ELSE caps[idj],
                                    idj = 0, Noise(seed, idi, idj, k))]]]

\* a setup-time table of zeros
ZeroSetupTimes(n, m) == [idj \in 0..n |-> [idi \in 0..n |-> [k \in 1..m |-> 0]]]

\* _get_processing_times: one value per (job, machine); np.random.random() * 10
\* is drawn from the seed
GetProcessingTimes(caps, n, m, seed) ==
    [j \in 1..n |-> [k \in 1..m |->
        ((seed * (j + k)) % (MaxPTime + 1)) + (caps[j] \div 5)]]

\* machine capacities of a generated instance
MachineCapacityOf(k) == IF k = 1 THEN 5 ELSE 3

\* the instances with n jobs and m machines that the benchmark generators give
InstancesOfSize(n, m) ==
    { [n |-> n, m |-> m, T |-> NumTimesteps, big_m |-> BigM,
       jobCap |-> caps,
       machCap |-> [k \in 1..m |-> MachineCapacityOf(k)],
       process_times |-> GetProcessingTimes(caps, n, m, pseed),
       setup_times |-> GetSetupTimes(caps, n, m, DefaultSetup, seed)]
      : caps \in [1..n -> JobCapacities],
        pseed \in 0..1,
        seed \in 0..1 }

GeneratedInstances ==
    UNION { InstancesOfSize(nm[1], nm[2])
            : nm \in {p \in (1..MaxSize) \X (1..MaxSize) : p[1] + p[2] <= MaxSize} }

\* Scenario A: 1 job (capacity 2), 1 machine (capacity 5), process time 3
ScenarioA ==
    [n |-> 1, m |-> 1, T |-> 5, big_m |-> BigM,
     jobCap |-> <<2>>, machCap |-> <<5>>,
     process_times |-> <<(<<3>>)>>,
     setup_times |-> ZeroSetupTimes(1, 1)]

\* Scenario B: 2 jobs each capacity 3, 1 machine capacity 5, process time 2
\* each, zero setup
ScenarioB ==
    [n |-> 2, m |-> 1, T |-> 6, big_m |-> BigM,
     jobCap |-> <<3, 3>>, machCap |-> <<5>>,
     process_times |-> <<(<<2>>), (<<2>>)>>,
     setup_times |-> ZeroSetupTimes(2, 1)]

\* Scenario C: 2 jobs each capacity 2, 1 machine capacity 5, zero setup
ScenarioC ==
    { [n |-> 2, m |-> 1, T |-> NumTimesteps, big_m |-> BigM,
       jobCap |-> <<2, 2>>, machCap |-> <<5>>,
       process_times |-> <<(<<p1>>), (<<p2>>)>>,
       setup_times |-> ZeroSetupTimes(2, 1)]
      : p1 \in 0..MaxPTime, p2 \in 0..MaxPTime }

\* hand-checkable instances: 2 or 3 jobs that cannot share the one machine,
\* each of process time 0, with the setup times of the generator
SequentialInstances ==
    { [n |-> n, m |-> 1, T |-> 3, big_m |-> BigM,
       jobCap |-> [j \in 1..n |-> 3], machCap |-> <<5>>,
       process_times |-> [j \in 1..n |-> <<0>>],
       setup_times |-> GetSetupTimes([j \in 1..n |-> 3], n, 1, DefaultSetup, seed)]
      : n \in 2..3, seed \in 0..1 }

\* instances whose process-time table does not have one row per job and one
\* column per machine: a row missing, a row too many, a column missing, a
\* column too many
MismatchedInstances ==
    { [n |-> 2, m |-> 1, T |-> NumTimesteps, big_m |-> BigM,
       jobCap |-> <<2, 2>>, machCap |-> <<5>>,
       process_times |-> p,
       setup_times |-> ZeroSetupTimes(2, 1)]
      : p \in { <<(<<1>>)>>,
                <<(<<0>>), (<<0>>), (<<1>>)>>,
                <<(<<>>), (<<1>>)>>,
                <<(<<0, 1>>), (<<1, 1>>)>> } }

Instances ==
    GeneratedInstances \cup {ScenarioA, ScenarioB} \cup ScenarioC
        \cup SequentialInstances \cup MismatchedInstances

(***************************************************************************)
(* The model's index sets (LPInstance.jobs, LPInstance.machines)           *)
(***************************************************************************)
\* jobs = list(job_capacities.keys()), "0" first
Jobs == 0..inst.n
\* jobs[1:]
RealJobs == 1..inst.n
\* machines = list(machine_capacities.keys())
Machines == 1..inst.m
\* list(range(timesteps))
Timesteps == 0..(inst.T - 1)
\* values of the continuous variables c_j, s_j and makespan (lower bound 0)
TimeVals == 0..inst.T

\* the capacities shifted by one position: job j gets the capacity of job j-1
JobCapacityShifted(j) == IF j <= 1 THEN 0 ELSE inst.jobCap[j - 1]

\* job_capacities = {"0": 0} | job_capacities
JobCapacity(j) == IF j = 0 THEN 0 ELSE inst.jobCap[j]

(***************************************************************************)
(* _define_lp: the constraints of the base model                           *)
(***************************************************************************)
\* sum over the machines of z_ikt[job][machine][timestep]
OccupiedAt(z, t) == lpSum([k \in Machines |-> z[k][t]], 1, inst.m)

\* constraint 1 with the two sides exchanged
Constraint1Reversed(cj, cmax) == cmax <= cj

\* (Constraint 1) c_j[job] <= c_max
Constraint1(cj, cmax) == cj <= cmax

\* constraint 2 with >= in place of ==
Constraint2AtLeast(c0) == c0 >= 0

\* (Constraint 2) c_j["0"] == 0
Constraint2(c0) == c0 = 0

\* Constraint 3 written with >= in place of ==
Constraint3AtLeast(x) == lpSum(x, 1, inst.m) >= 1

\* (Constraint 3) lpSum(x_ik[job][machine] for machine) == 1
Constraint3(x) == lpSum(x, 1, inst.m) = 1

\* (Constraint 7) c_j[job] - s_j[job] + 1 == lpSum(z_ikt[job][machine][timestep])
Constraint7(z, s, c) ==
    c - s + 1 = lpSum([t \in Timesteps |-> OccupiedAt(z, t)], 0, inst.T - 1)

\* (Constraint 8) lpSum(z_ikt[job][machine][t] for t) <= x_ik[job][machine] * big_m
Constraint8(zk, xk) == lpSum(zk, 0, inst.T - 1) <= xk * inst.big_m

\* (Constraint 9) lpSum(z_ikt[job][machine][t] for machine) * t <= c_j[job]
Constraint9(z, c, t) == OccupiedAt(z, t) * t <= c

\* Constraint 10 without the factor (1 - lpSum(z...)) on big_m
Constraint10Relaxed(z, s, t) ==
    s <= OccupiedAt(z, t) * t + inst.big_m

\* (Constraint 10) s_j[job] <= lpSum(z...) * t + big_m * (1 - lpSum(z...))
Constraint10(z, s, t) ==
    s <= OccupiedAt(z, t) * t + inst.big_m * (1 - OccupiedAt(z, t))

\* Constraint 11 summed over jobs[2:] in place of jobs[1:]
Constraint11SkipFirst(q, t, k) ==
    lpSum([j \in 1..Len(q) |-> IF j = 1 THEN 0 ELSE q[j].z[k][t] * JobCapacity(j)],
          1, Len(q))
        <= inst.machCap[k]

\* (Constraint 11) lpSum(z_ikt[job][machine][t] * job_capacities[job]
\*                       for job in jobs[1:]) <= machine_capacities[machine]
\* q holds the rows of the jobs 1..Len(q)
Constraint11(q, t, k) ==
    lpSum([j \in 1..Len(q) |-> q[j].z[k][t] * JobCapacity(j)], 1, Len(q))
        <= inst.machCap[k]

(***************************************************************************)
(* set_up_simple_lp                                                        *)
(***************************************************************************)
\* the innermost level of pulp.makeDict(headers, array, default): zip of the
\* machines with the row, the default for a machine the row does not reach
MakeDictRow(row, default) ==
    [k \in Machines |-> IF k <= Len(row) THEN row[k] ELSE default]

\* np.max(times[[t not in [0, idx] ...]].transpose(), axis=1) is taken over
\* the rows t of setup_times[idx] other than 0 and idx
OtherRows(idx) == Jobs \ {0, idx}

\* np.max of a zero-size array raises ValueError
SimpleSetupRaises == \E idx \in Jobs : OtherRows(idx) = {}

\* _get_simple_setup_times: per job the per-machine maxima, then
\* "del new_times[0]" and, for each remaining row, "del times[0]"
GetSimpleSetupTimes(setup_times) ==
    [idx \in RealJobs |->
        Tail([k \in Machines |->
                npMax({setup_times[idx][t][k] : t \in OtherRows(idx)})])]

\* pulp.makeDict reads array[i] for every job of jobs[1:]: IndexError when the
\* table has fewer rows than there are jobs
PTimesRaises == Len(inst.process_times) < inst.n

\* p_times = pulp.makeDict([jobs[1:], machines], process_times, 0)
MakePTimes == [j \in RealJobs |-> MakeDictRow(inst.process_times[j], 0)]

\* s_times = pulp.makeDict([jobs[1:], machines], _get_simple_setup_times(...), 0)
MakeSimpleSTimes ==
    LET new_times == GetSimpleSetupTimes(inst.setup_times)
    IN  [j \in RealJobs |-> MakeDictRow(new_times[j], 0)]

\* the constraint of set_up_simple_lp with the duration c - s + 1 on its left
SimpleConstraintDuration(l, j, x, s, c) ==
    c - s + 1 >= lpSum([k \in Machines |->
                          x[k] * (l.p_times[j][k] + l.s_times[j][k])], 1, inst.m)

\* c_j[job] >= s_j[job] + lpSum(x_ik[job][machine]
\*                 * (p_times[job][machine] + s_times[job][machine]))
SimpleConstraint(l, j, x, s, c) ==
    c >= s + lpSum([k \in Machines |->
                      x[k] * (l.p_times[j][k] + l.s_times[j][k])], 1, inst.m)

(***************************************************************************)
(* set_up_extended_lp. y[i][j][k] is y_ijk[i][j][k]: i the predecessor.   *)
(* A column ycol of job j is [i \in Jobs |-> [k \in Machines |-> y[i][j][k]]].  *)
(***************************************************************************)
\* s_times = pulp.makeDict([jobs, jobs, machines], setup_times, 0)
MakeExtendedSTimes ==
    [i \in Jobs |-> [j \in Jobs |-> MakeDictRow(inst.setup_times[i][j], 0)]]

\* lpSum(y_ijk[job_j][job][machine] for job_j in jobs) for one machine
PredecessorsOn(ycol, k) == lpSum([i \in Jobs |-> ycol[i][k]], 0, inst.n)

\* (4) each job has a predecessor
Extended4(ycol) ==
    lpSum([k \in Machines |-> PredecessorsOn(ycol, k)], 1, inst.m) >= 1

\* constraint (7) with the duration c - s + 1 on its left
Extended7Duration(l, j, x, s, c, ycol) ==
    c - s + 1 >= lpSum([k \in Machines |-> x[k] * l.p_times[j][k]], 1, inst.m)
           + lpSum([k \in Machines |->
                      lpSum([i \in Jobs |-> ycol[i][k] * l.s_times[i][j][k]],
                            0, inst.n)], 1, inst.m)

\* (7) c_j >= s_j + lpSum(x_ik * p_times) + lpSum(y_ijk * s_times)
Extended7(l, j, x, s, c, ycol) ==
    c >= s + lpSum([k \in Machines |-> x[k] * l.p_times[j][k]], 1, inst.m)
           + lpSum([k \in Machines |->
                      lpSum([i \in Jobs |-> ycol[i][k] * l.s_times[i][j][k]],
                            0, inst.n)], 1, inst.m)

\* predecessor (6) x_ik[job][machine] >= lpSum(y_ijk[job_j][job][machine]) / big_m
Extended6(l, xk, ycol, k) == xk * l.big_m >= PredecessorsOn(ycol, k)

\* the successor constraint summed over jobs[1:] in place of jobs
ExtendedSuccessorSkipSentinel(l, xk, y, i, k) ==
    xk * l.big_m >= lpSum([j \in Jobs |-> IF j = 0 THEN 0 ELSE y[i][j][k]], 0, inst.n)

\* successor: x_ik[job][machine] >= lpSum(y_ijk[job][job_j][machine]) / big_m
ExtendedSuccessor(l, xk, y, i, k) ==
    xk * l.big_m >= lpSum([j \in Jobs |-> y[i][j][k]], 0, inst.n)

\* constraint (5) with <= in place of ==
Extended5AtMost(z, ycol, k) == z[k][0] <= ycol[0][k]

\* (5) z_ikt[job][machine][0] == y_ijk["0"][job][machine]
Extended5(z, ycol, k) == z[k][0] = ycol[0][k]

\* the ordering constraint with predecessor and successor exchanged
ExtendedOrderReversed(l, cPred, sJob, ycol, i) ==
    sJob + (lpSum([k \in Machines |-> ycol[i][k]], 1, inst.m) - 1) * l.big_m
        <= cPred

\* c_j[job_j] + (lpSum(y_ijk[job_j][job][machine] for machine) - 1) * big_m
\*     <= s_j[job]
ExtendedOrder(l, cPred, sJob, ycol, i) ==
    cPred + (lpSum([k \in Machines |-> ycol[i][k]], 1, inst.m) - 1) * l.big_m
        <= sJob

\* a_ij[job][job_j] == 0 when job == job_j, else
\* a_ij[job][job_j] >= (s_j[job_j] - c_j[job]) / big_m
ExtendedA(l, a, i, j, cI, sJ) ==
    IF i = j THEN a = 0 ELSE a * l.big_m >= sJ - cI

\* b_ij[job][job_j] == 0 when job == job_j, else
\* b_ij[job][job_j] >= (c_j[job_j] - c_j[job]) / big_m
ExtendedB(l, b, i, j, cI, cJ) ==
    IF i = j THEN b = 0 ELSE b * l.big_m >= cJ - cI

\* d_ijk[job][job_j][machine] >= x_ik[job][machine] + x_ik[job_j][machine] - 1
\* (no constraint is added for job == job_j)
ExtendedD(d, i, j, xIk, xJk) == i = j \/ d >= xIk + xJk - 1

\* e_ijlk[job][job_j][job_l][machine] >= b_ij[job][job_l] + a_ij[job_l][job_j]
\*     + d_ijk[job][job_j][machine] + d_ijk[job][job_l][machine] - 3
\* (no constraint is added for job == job_j)
ExtendedE(e, i, j, bIL, aLJ, dIJ, dIL) == i = j \/ e >= bIL + aLJ + dIJ + dIL - 3

\* y_ijk[job][job_j][machine] >= a_ij[job][job_j]
\*     + lpSum(e_ijlk[job][job_j][job_l][machine] for job_l in jobs[1:]) / big_m
\*     + d_ijk[job][job_j][machine] - 2
ExtendedY(l, yijk, aIJ, eIJk, dIJk) ==
    yijk * l.big_m >= (aIJ + dIJk - 2) * l.big_m + lpSum(eIJk, 1, inst.n)

(***************************************************************************)
(* The solver: the variable assignments that satisfy every constraint of   *)
(* the model.  They are built in stages, each stage keeping what satisfies *)
(* the constraints that read only the variables chosen so far.             *)
(*                                                                         *)
(* Variables that occur in no constraint (x, z and s of the sentinel,      *)
(* y["0"]["0"], and a, b, d, e with a sentinel index) are left at 0 or     *)
(* left out.                                                               *)
(***************************************************************************)
\* x_ik[job]: binary per machine
XRows == {x \in [Machines -> {0, 1}] : Constraint3(x)}

\* z_ikt[job][machine]: binary per timestep
ZMachineRows(xk) == {zk \in [Timesteps -> {0, 1}] : Constraint8(zk, xk)}

\* z_ikt[job]
ZRows(x) == Product([k \in Machines |-> ZMachineRows(x[k])], inst.m)

\* the constraints of _define_lp that read the variables of one job only
BaseRowOK(z, s, c) ==
    /\ Constraint7(z, s, c)
    /\ \A t \in Timesteps : Constraint9(z, c, t) /\ Constraint10(z, s, t)

\* the rows of one job when constraint 3 reads >= and constraint 10 is left out
BaseRowsWithoutStart ==
    UNION { UNION { { [x |-> x, z |-> z, s |-> sc[1], c |-> sc[2]]
                      : sc \in {p \in TimeVals \X TimeVals :
                                  /\ Constraint7(z, p[1], p[2])
                                  /\ \A t \in Timesteps : Constraint9(z, p[2], t)} }
                    : z \in ZRows(x) }
            : x \in {v \in [Machines -> {0, 1}] : Constraint3AtLeast(v)} }

\* the rows (x, z, s, c) of one job that satisfy them
BaseRows ==
    UNION { UNION { { [x |-> x, z |-> z, s |-> sc[1], c |-> sc[2]]
                      : sc \in {p \in TimeVals \X TimeVals : BaseRowOK(z, p[1], p[2])} }
                    : z \in ZRows(x) }
            : x \in XRows }

\* the rows of job j in the model as extended so far
JobRows(l, j, rows) ==
    IF l.form = "simple"
    THEN {r \in rows : SimpleConstraint(l, j, r.x, r.s, r.c)}
    ELSE rows

\* the rows of all jobs that respect the machine capacities
Schedules(l) ==
    UNION { {q \in Product([j \in RealJobs |-> JobRows(l, j, rows)], inst.n) :
                \A t \in Timesteps : \A k \in Machines : Constraint11(q, t, k)}
            : rows \in {BaseRows} }

\* the values of the binary v allowed by its constraint: the least or the greatest
Pick(pick, allowed) == IF pick = "least" THEN Least(allowed) ELSE npMax(allowed)

\* a, b, d, e for the schedule q; <<>> when a variable has no allowed value
AuxA(l, q, pick) ==
    [i \in RealJobs |-> [j \in RealJobs |->
        LET ok == {v \in {0, 1} : ExtendedA(l, v, i, j, q[i].c, q[j].s)}
        IN  IF ok = {} THEN -1 ELSE Pick(pick, ok)]]

AuxB(l, q, pick) ==
    [i \in RealJobs |-> [j \in RealJobs |->
        LET ok == {v \in {0, 1} : ExtendedB(l, v, i, j, q[i].c, q[j].c)}
        IN  IF ok = {} THEN -1 ELSE Pick(pick, ok)]]

AuxD(q, pick) ==
    [i \in RealJobs |-> [j \in RealJobs |-> [k \in Machines |->
        Pick(pick, {v \in {0, 1} : ExtendedD(v, i, j, q[i].x[k], q[j].x[k])})]]]

AuxE(a, b, d, pick) ==
    [i \in RealJobs |-> [j \in RealJobs |-> [k \in Machines |-> [l \in RealJobs |->
        LET ok == {v \in {0, 1} :
                     ExtendedE(v, i, j, b[i][l], a[l][j], d[i][j][k], d[i][l][k])}
        IN  IF ok = {} THEN -1 ELSE Pick(pick, ok)]]]]

\* e is kept as e[i][j][k][l], so that e[i][j][k] is the family summed over l
Aux(l, q, pick) ==
    { [a |-> a, b |-> b, d |-> d, e |-> AuxE(a, b, d, pick)]
      : a \in {AuxA(l, q, pick)}, b \in {AuxB(l, q, pick)}, d \in {AuxD(q, pick)} }

AuxOK(aux) ==
    \A i \in RealJobs : \A j \in RealJobs :
        /\ aux.a[i][j] >= 0
        /\ aux.b[i][j] >= 0
        /\ \A k \in Machines : \A l \in RealJobs : aux.e[i][j][k][l] >= 0

\* the columns of y for job j >= 1 that satisfy the constraints reading only
\* that column, the schedule and the auxiliary variables
YCols(l, q, aux, j) ==
    {ycol \in [Jobs -> [Machines -> {0, 1}]] :
        /\ \A k \in Machines :
              /\ Extended5(q[j].z, ycol, k)
              /\ Extended6(l, q[j].x[k], ycol, k)
        /\ Extended4(ycol)
        /\ \A i \in Jobs :
              ExtendedOrder(l, IF i = 0 THEN 0 ELSE q[i].c, q[j].s, ycol, i)
        /\ Extended7(l, j, q[j].x, q[j].s, q[j].c, ycol)
        /\ \A i \in RealJobs : \A k \in Machines :
              ExtendedY(l, ycol[i][k], aux.a[i][j], aux.e[i][j][k], aux.d[i][j][k])}

\* the column of the sentinel as successor: y[i]["0"][k] occurs only in the
\* successor constraint of job i.  The columns tried have at most one entry
\* set, for the first job.
YCols0 ==
    {ycol \in [Jobs -> [Machines -> {0, 1}]] :
        /\ \A k \in Machines : ycol[0][k] = 0
        /\ \A i \in RealJobs : \A k \in Machines : ycol[i][k] = 1 => i = 1
        /\ lpSum([k \in Machines |-> PredecessorsOn(ycol, k)], 1, inst.m) <= 1}

\* y_ijk from its columns
YOf(cols0, cols) ==
    [i \in Jobs |-> [j \in Jobs |-> [k \in Machines |->
        IF j = 0 THEN cols0[i][k] ELSE cols[j][i][k]]]]

\* all y for the schedule q and the auxiliary variables aux
Orders(l, q, aux) ==
    {y \in {YOf(c0, cs) : c0 \in YCols0,
                           cs \in Product([j \in RealJobs |-> YCols(l, q, aux, j)], inst.n)} :
        \A i \in RealJobs : \A k \in Machines : ExtendedSuccessor(l, q[i].x[k], y, i, k)}

\* the assignment with the rows q, the makespan cmax and the extended variables
Assignment(q, c0, cmax, y, aux) ==
    [x |-> [j \in Jobs |-> IF j = 0 THEN [k \in Machines |-> 0] ELSE q[j].x],
     z |-> [j \in Jobs |-> IF j = 0 THEN [k \in Machines |-> [t \in Timesteps |-> 0]]
                                  ELSE q[j].z],
     s |-> [j \in Jobs |-> IF j = 0 THEN 0 ELSE q[j].s],
     c |-> [j \in Jobs |-> IF j = 0 THEN c0 ELSE q[j].c],
     makespan |-> cmax,
     y |-> y, aux |-> aux]

\* the values of makespan that constraint 1 allows for the schedule q
Makespans(q) == {cmax \in TimeVals : \A j \in RealJobs : Constraint1(q[j].c, cmax)}

\* the values of c_j["0"]
SentinelC == {c0 \in TimeVals : Constraint2(c0)}

NoAux == <<>>

\* every satisfying assignment of the model l
Solutions(l) ==
    IF l.form = "extended"
    THEN UNION { UNION { { Assignment(q, c0, cmax, y, aux)
                           : c0 \in SentinelC, cmax \in Makespans(q), y \in Orders(l, q, aux) }
                         : aux \in {x \in Aux(l, q, "least") \cup Aux(l, q, "greatest") : AuxOK(x)} }
                 : q \in Schedules(l) }
    ELSE UNION { { Assignment(q, c0, cmax, NoAux, NoAux)
                   : c0 \in SentinelC, cmax \in Makespans(q) }
                 : q \in Schedules(l) }

(***************************************************************************)
(* The pulp problem: its objective, its variables and the sequence of its  *)
(* constraints in the order of the "problem +=" statements.  A constraint  *)
(* is recorded by the statement that adds it, the loop indices at which it *)
(* is added and the input numbers that are its coefficients.               *)
(***************************************************************************)
RECURSIVE SeqCat(_, _, _)
\* the constraints that a for loop over lo..hi adds, f[i] those of round i
SeqCat(f, lo, hi) == IF lo > hi THEN <<>> ELSE f[lo] \o SeqCat(f, lo + 1, hi)

\* one "problem += constraint"
Con(name, at, coef) == [name |-> name, at |-> at, coef |-> coef]

\* pulp.LpVariable.dicts(name, indices, lowBound, cat=cat) and
\* pulp.LpVariable("makespan", 0, cat="Continuous")
DefineLPVariables ==
    { [name |-> "x_ik", indices |-> <<"jobs", "machines">>,
       lowBound |-> <<>>, cat |-> "Binary"],
      [name |-> "z_ikt", indices |-> <<"jobs", "machines", "timesteps">>,
       lowBound |-> <<>>, cat |-> "Binary"],
      [name |-> "c_j", indices |-> <<"jobs">>,
       lowBound |-> <<0>>, cat |-> "Continuous"],
      [name |-> "s_j", indices |-> <<"jobs">>,
       lowBound |-> <<0>>, cat |-> "Continuous"],
      [name |-> "makespan", indices |-> <<>>,
       lowBound |-> <<0>>, cat |-> "Continuous"] }

\* the body of "for job in jobs[1:]" of _define_lp
DefineLPJobConstraints(j) ==
    << Con("Constraint1", [job |-> j], <<>>),
       Con("Constraint3", [job |-> j], <<>>),
       Con("Constraint7", [job |-> j], <<>>) >>
    \o [k \in Machines |->
          Con("Constraint8", [job |-> j, machine |-> k], <<inst.big_m>>)]
    \o SeqCat([t \in Timesteps |->
                 << Con("Constraint9", [job |-> j, timestep |-> t], <<t>>),
                    Con("Constraint10", [job |-> j, timestep |-> t],
                        <<t, inst.big_m>>) >>],
              0, inst.T - 1)

\* "for timestep in timesteps: for machine in machines:" of _define_lp
DefineLPCapacityConstraints ==
    SeqCat([t \in Timesteps |->
              [k \in Machines |->
                 Con("Constraint11", [timestep |-> t, machine |-> k],
                     << [j \in RealJobs |-> JobCapacity(j)],
                        inst.machCap[k] >>)]],
           0, inst.T - 1)

\* the constraints of _define_lp in the order it adds them
DefineLPConstraints ==
    << Con("Constraint2", [job |-> 0], <<>>) >>
    \o SeqCat([j \in RealJobs |-> DefineLPJobConstraints(j)], 1, inst.n)
    \o DefineLPCapacityConstraints

\* a problem object that stays alive between two calls of _define_lp: the
\* second call adds to the problem of the first
LpProblemShared ==
    IF previous = <<>>
    THEN [objective |-> "none", variables |-> {}, constraints |-> <<>>]
    ELSE previous[1].problem

\* problem = pulp.LpProblem("Scheduling", pulp.LpMinimize): a new, empty
\* problem in every call
LpProblem == [objective |-> "none", variables |-> {}, constraints |-> <<>>]

\* the problem of the LPInstance that _define_lp returns
DefineLPProblem ==
    [LpProblem EXCEPT !.objective = "makespan",
                      !.variables = @ \cup DefineLPVariables,
                      !.constraints = @ \o DefineLPConstraints]

\* the loop over lp_instance.jobs instead of lp_instance.jobs[1:]: a
\* constraint for the sentinel too
SimpleConstraintsWithSentinel(p_times, s_times) ==
    << Con("SimpleConstraint", [job |-> 0], <<>>) >>
    \o [j \in RealJobs |->
          Con("SimpleConstraint", [job |-> j], <<p_times[j], s_times[j]>>)]

\* "for job in lp_instance.jobs[1:]" of set_up_simple_lp
SimpleConstraints(p_times, s_times) ==
    [j \in RealJobs |->
       Con("SimpleConstraint", [job |-> j], <<p_times[j], s_times[j]>>)]

\* the decision variables of set_up_extended_lp
ExtendedVariables ==
    { [name |-> "y_ijk", indices |-> <<"jobs", "jobs", "machines">>,
       lowBound |-> <<>>, cat |-> "Binary"],
      [name |-> "a_ij", indices |-> <<"jobs", "jobs">>,
       lowBound |-> <<>>, cat |-> "Binary"],
      [name |-> "b_ij", indices |-> <<"jobs", "jobs">>,
       lowBound |-> <<>>, cat |-> "Binary"],
      [name |-> "d_ijk", indices |-> <<"jobs", "jobs", "machines">>,
       lowBound |-> <<>>, cat |-> "Binary"],
      [name |-> "e_ijlk", indices |-> <<"jobs", "jobs", "jobs", "machines">>,
       lowBound |-> <<>>, cat |-> "Binary"] }

\* the body of the first "for job in lp_instance.jobs[1:]" of
\* set_up_extended_lp
ExtendedJobConstraints(j, p_times, s_times, big_m) ==
    << Con("Extended4", [job |-> j], <<>>),
       Con("Extended7", [job |-> j],
           <<p_times[j], [i \in Jobs |-> s_times[i][j]]>>) >>
    \o SeqCat([k \in Machines |->
                 << Con("Extended6", [job |-> j, machine |-> k], <<big_m>>),
                    Con("ExtendedSuccessor", [job |-> j, machine |-> k],
                        <<big_m>>),
                    Con("Extended5", [job |-> j, machine |-> k], <<>>) >>],
              1, inst.m)
    \o SeqCat([i \in Jobs |->
                 << Con("ExtendedOrder", [job |-> j, job_j |-> i],
                        <<big_m>>) >>],
              0, inst.n)

\* the body of "for job_j in lp_instance.jobs[1:]" of the second loop
ExtendedPairConstraints(j, i, big_m) ==
    IF j = i
    THEN << Con("ExtendedAZero", [job |-> j, job_j |-> i], <<>>),
            Con("ExtendedBZero", [job |-> j, job_j |-> i], <<>>) >>
    ELSE << Con("ExtendedA", [job |-> j, job_j |-> i], <<big_m>>),
            Con("ExtendedB", [job |-> j, job_j |-> i], <<big_m>>) >>
         \o SeqCat([k \in Machines |->
                      << Con("ExtendedD",
                             [job |-> j, job_j |-> i, machine |-> k], <<>>) >>
                      \o [l \in RealJobs |->
                            Con("ExtendedE",
                                [job |-> j, job_j |-> i, machine |-> k,
                                 job_l |-> l], <<>>)]],
                   1, inst.m)

\* the constraints that set_up_extended_lp adds, in order
ExtendedConstraints(p_times, s_times, big_m) ==
    SeqCat([j \in RealJobs |->
              ExtendedJobConstraints(j, p_times, s_times, big_m)], 1, inst.n)
    \o SeqCat([j \in RealJobs |->
                 SeqCat([i \in RealJobs |->
                           ExtendedPairConstraints(j, i, big_m)], 1, inst.n)],
              1, inst.n)
    \o SeqCat([j \in RealJobs |->
                 SeqCat([i \in RealJobs |->
                           [k \in Machines |->
                              Con("ExtendedY",
                                  [job |-> j, job_j |-> i, machine |-> k],
                                  <<big_m>>)]], 1, inst.n)],
              1, inst.n)

(***************************************************************************)
(* The state machine: build the base model, extend it, solve it            *)
(***************************************************************************)
\* set_up_base_lp without the final raise: everything but a list takes the
\* path of a dict
DispatchDefaultInfo(acc) == IF acc = "list" THEN "exec" ELSE "info"

\* set_up_base_lp: isinstance(accelerators, list), isinstance(accelerators,
\* dict), else raise NotImplementedError
Dispatch(acc) ==
    IF acc = "list" THEN "exec" ELSE IF acc = "dict" THEN "info" ELSE "raise"

\* no pulp problem
NoProblem == [objective |-> "none", variables |-> {}, constraints |-> <<>>]

NoLP ==
    [form |-> "none", path |-> "none", big_m |-> 0, p_times |-> <<>>, s_times |-> <<>>,
     problem |-> NoProblem]

\* the LPInstance that _define_lp returns
BaseLP ==
    [NoLP EXCEPT !.form = "base", !.path = "info", !.problem = DefineLPProblem]

\* the LPInstance that _set_up_base_lp_exec obtains from _define_lp
ExecLP == [BaseLP EXCEPT !.path = "exec"]

\* set_up_simple_lp(lp_instance, process_times, setup_times): the instance it
\* was given, with one more constraint per job
SimpleLPOf(lp_instance) ==
    [lp_instance EXCEPT !.form = "simple",
                        !.p_times = MakePTimes,
                        !.s_times = MakeSimpleSTimes,
                        !.problem.constraints =
                            @ \o SimpleConstraints(MakePTimes, MakeSimpleSTimes)]

\* the LPInstance that set_up_simple_lp returns
SimpleLP == SimpleLPOf(BaseLP)

\* set_up_extended_lp(lp_instance, process_times, setup_times, big_m): the
\* instance it was given, with more variables and constraints
ExtendedLPOf(lp_instance, big_m) ==
    [lp_instance EXCEPT !.form = "extended",
                        !.big_m = big_m,
                        !.p_times = MakePTimes,
                        !.s_times = MakeExtendedSTimes,
                        !.problem.variables = @ \cup ExtendedVariables,
                        !.problem.constraints =
                            @ \o ExtendedConstraints(MakePTimes, MakeExtendedSTimes,
                                                     big_m)]

\* the LPInstance that set_up_extended_lp returns with the default big_m
ExtendedLP == ExtendedLPOf(BaseLP, BigM)

NoSol == <<>>

\* no solution file has been read
NoData == <<>>
\* no dataframe has been returned
NoFrame == [state |-> "none", rows |-> <<>>]
\* job_data.txt has not been written
NoFile == <<>>

\* no accelerator group has been made
ProviderIdle ==
    /\ group = <<>>
    /\ experiments = <<>>
    /\ scheduled_jobs = <<>>
    /\ process_counter = 0
    /\ tasks = <<>>
    /\ call = [fn |-> "none", state |-> "idle", first |-> 0,
               finished |-> <<>>, results |-> <<>>]

\* the other components have not run
OtherInit ==
    /\ previous = <<>>
    /\ circuit_jobs = <<>>
    /\ composed_circuit = [state |-> "none"]
    /\ combined_job = [state |-> "none"]
    /\ ProviderIdle

Init ==
    /\ inst \in Instances
    /\ lp = NoLP
    /\ status = "Not Built"
    /\ sol = NoSol
    /\ data = NoData
    /\ df = NoFrame
    /\ job_data = NoFile
    /\ accelerators = "dict"
    /\ OtherInit

\* set_up_base_lp / _set_up_base_lp_info / _define_lp
DefineLP ==
    /\ lp.form = "none"
    /\ status = "Not Built"
    /\ Dispatch(accelerators) = "info"
    /\ lp' = BaseLP
    /\ status' = "Not Solved"
    /\ UNCHANGED <<inst, sol>>
    /\ UNCHANGED <<accelerators, explorerVars, otherVars>>

\* set_up_simple_lp, when _get_simple_setup_times returns
SetUpSimple ==
    /\ lp.form = "base"
    /\ status = "Not Solved"
    /\ ~PTimesRaises
    /\ ~SimpleSetupRaises
    /\ lp' = SimpleLPOf(lp)
    /\ UNCHANGED <<inst, status, sol>>
    /\ UNCHANGED <<accelerators, explorerVars, otherVars>>

\* set_up_simple_lp, when pulp.makeDict raises on the process times or np.max
\* raises in _get_simple_setup_times: no constraint has been added
SetUpSimpleRaises ==
    /\ lp.form = "base"
    /\ status = "Not Solved"
    /\ PTimesRaises \/ SimpleSetupRaises
    /\ status' = "Raised"
    /\ UNCHANGED <<inst, lp, sol>>
    /\ UNCHANGED <<accelerators, explorerVars, otherVars>>

\* set_up_extended_lp with the default big_m
SetUpExtended ==
    /\ lp.form = "base"
    /\ status = "Not Solved"
    /\ ~PTimesRaises
    /\ lp' = ExtendedLPOf(lp, BigM)
    /\ UNCHANGED <<inst, status, sol>>
    /\ UNCHANGED <<accelerators, explorerVars, otherVars>>

\* set_up_extended_lp, when pulp.makeDict raises on the process times: no
\* constraint has been added
SetUpExtendedRaises ==
    /\ lp.form = "base"
    /\ status = "Not Solved"
    /\ PTimesRaises
    /\ status' = "Raised"
    /\ UNCHANGED <<inst, lp, sol>>
    /\ UNCHANGED <<accelerators, explorerVars, otherVars>>

\* the solver returns a satisfying assignment; it is optimal when no
\* satisfying assignment has a smaller makespan (the objective)
Solve ==
    /\ lp.form \in {"simple", "extended"}
    /\ status = "Not Solved"
    /\ \E all \in {Solutions(lp)} :
          /\ all # {}
          /\ \E best \in {Least({v.makespan : v \in all})} :
                \E v \in all :
                   /\ sol' = v
                   /\ status' = IF v.makespan = best THEN "Optimal" ELSE "Feasible"
    /\ UNCHANGED <<inst, lp>>
    /\ UNCHANGED <<accelerators, explorerVars, otherVars>>

\* the solver reports that no assignment satisfies the constraints
SolveInfeasible ==
    /\ lp.form \in {"simple", "extended"}
    /\ status = "Not Solved"
    /\ Solutions(lp) = {}
    /\ status' = "Infeasible"
    /\ UNCHANGED <<inst, lp, sol>>
    /\ UNCHANGED <<accelerators, explorerVars, otherVars>>

Next ==
    \/ DefineLP
    \/ SetUpSimple
    \/ SetUpSimpleRaises
    \/ SetUpExtended
    \/ SetUpExtendedRaises
    \/ Solve
    \/ SolveInfeasible

Spec == Init /\ [][Next]_vars

(***************************************************************************)
(* Properties                                                              *)
(***************************************************************************)
\* the solver has returned a satisfying assignment
Solved == status \in {"Optimal", "Feasible"}

\* the process and setup times of the instance are non-negative
NonNegativeTimes ==
    /\ \A j \in 1..Len(inst.process_times) :
          \A k \in 1..Len(inst.process_times[j]) : inst.process_times[j][k] >= 0
    /\ \A i \in Jobs : \A j \in Jobs : \A k \in Machines : inst.setup_times[i][j][k] >= 0

\* the capacity on machine k at time t of the jobs assigned to k whose
\* interval [start, completion] contains t
IntervalLoad(k, t) ==
    lpSum([j \in RealJobs |->
              IF sol.x[j][k] = 1 /\ sol.s[j] <= t /\ t <= sol.c[j]
              THEN JobCapacity(j) ELSE 0], 1, inst.n)

\* C1: in every assignment that satisfies the simple or the extended
\* formulation, for every machine and every integer timestep t, the capacities
\* of the jobs assigned to the machine with start <= t <= completion sum to at
\* most the machine's capacity.
C1_IntervalCapacity ==
    Solved =>
        \A k \in Machines : \A t \in TimeVals : IntervalLoad(k, t) <= inst.machCap[k]

\* two jobs share a machine at the same timestep in a returned schedule, and
\* a third job of theirs would not fit
C1_Witness ==
    /\ Solved
    /\ \E k \in Machines : \E t \in Timesteps : \E i \in RealJobs : \E j \in RealJobs :
          /\ i # j
          /\ sol.x[i][k] = 1 /\ sol.s[i] <= t /\ t <= sol.c[i]
          /\ sol.x[j][k] = 1 /\ sol.s[j] <= t /\ t <= sol.c[j]
          /\ IntervalLoad(k, t) + JobCapacity(i) > inst.machCap[k]

\* C2: in every assignment that satisfies the model, each non-sentinel job has
\* assign = 1 for exactly one machine.
C2_OneMachinePerJob ==
    Solved =>
        \A j \in RealJobs : Cardinality({k \in Machines : sol.x[j][k] = 1}) = 1

\* a job is assigned to the second of two machines
C2_Witness ==
    /\ Solved
    /\ inst.m >= 2
    /\ \E j \in RealJobs : sol.x[j][2] = 1 /\ sol.x[j][1] = 0

\* C6: in every assignment that satisfies the simple or the extended
\* formulation with non-negative process and setup times, completion >= start
\* for every non-sentinel job.
C6_CompletionAfterStart ==
    (Solved /\ NonNegativeTimes) =>
        \A j \in RealJobs : sol.c[j] >= sol.s[j]

\* a job of process time 0 that starts and completes in the same timestep, in
\* a solution of the simple formulation
C6_Witness ==
    /\ Solved
    /\ lp.form = "simple"
    /\ NonNegativeTimes
    /\ \E j \in RealJobs : \E k \in Machines :
          sol.x[j][k] = 1 /\ lp.p_times[j][k] = 0 /\ sol.c[j] = sol.s[j]

\* the optimal objective value of the model l
OptimalMakespan(l) == Least({v.makespan : v \in Solutions(l)})

\* C3: on any instance on which both formulations are feasible, the optimal
\* makespan of the simple formulation is at least the optimal makespan of the
\* extended formulation.
C3_SimpleNotBelowExtended ==
    (status = "Optimal" /\ lp.form = "simple" /\ Solutions(ExtendedLP) # {}) =>
        sol.makespan >= OptimalMakespan(ExtendedLP)

\* C4: for every non-sentinel job j and every machine k, the setup term of
\* set_up_simple_lp is the maximum over the jobs i other than the sentinel and
\* j of the table entry of row j, predecessor i, machine k.
C4_SimpleSetupIsMaximum ==
    lp.form = "simple" =>
        \A j \in RealJobs : \A k \in Machines :
            lp.s_times[j][k] = npMax({inst.setup_times[j][i][k] : i \in OtherRows(j)})

\* C5: in every assignment that satisfies the extended formulation, if a job l
\* on the same machine m runs between i and j (i completes before l completes
\* and l completes before j starts), then order[i][j][m] = 0.
C5_NoEdgeAcrossIntermediateJob ==
    (Solved /\ lp.form = "extended") =>
        \A m \in Machines : \A i \in RealJobs : \A j \in RealJobs : \A l \in RealJobs :
            ( /\ i # j /\ i # l /\ j # l
              /\ sol.x[i][m] = 1 /\ sol.x[j][m] = 1 /\ sol.x[l][m] = 1
              /\ sol.c[i] < sol.c[l] /\ sol.c[l] < sol.s[j] )
            => sol.y[i][j][m] = 0

\* the number of (machine, timestep) slots that job j occupies in the solution
OccupiedTimesteps(j) ==
    lpSum([k \in Machines |-> lpSum([t \in Timesteps |-> sol.z[j][k][t]], 0, inst.T - 1)],
          1, inst.m)

\* jobs i and j occupy machine k together at timestep t
OccupyTogether(i, j, k, t) == sol.z[i][k][t] = 1 /\ sol.z[j][k][t] = 1

\* C7: Scenario A (one job of capacity 2, one machine of capacity 5, process
\* time 3): the optimal schedule starts the job at 0 and completes it at 2, the
\* job occupies exactly 3 timesteps, and the makespan is 2.
C7_ScenarioA ==
    (inst = ScenarioA /\ status = "Optimal") =>
        /\ sol.s[1] = 0
        /\ sol.c[1] = 2
        /\ OccupiedTimesteps(1) = 3
        /\ sol.makespan = 2

\* C8: Scenario B (two jobs of capacity 3, one machine of capacity 5, process
\* time 2 each, zero setup times): every assignment that satisfies the extended
\* formulation has no timestep occupied by both jobs, and a makespan of at
\* least 4.
C8_ScenarioB ==
    (inst = ScenarioB /\ lp.form = "extended" /\ Solved) =>
        /\ \A t \in Timesteps : ~OccupyTogether(1, 2, 1, t)
        /\ sol.makespan >= 4

\* Scenario B is solved by the extended formulation with job 2 starting after
\* job 1 has completed
C8_Witness ==
    /\ inst = ScenarioB
    /\ lp.form = "extended"
    /\ Solved
    /\ sol.x[1][1] = 1 /\ sol.x[2][1] = 1
    /\ sol.c[1] < sol.s[2]

OversizedJob ==
    \E j \in RealJobs : \A k \in Machines : JobCapacity(j) > inst.machCap[k]

\* C10: Scenario D: when some job's capacity exceeds the capacity of every
\* machine, neither extension raises and neither formulation has a satisfying
\* assignment; the failure shows only as solver-reported infeasibility.
C10_ScenarioD ==
    OversizedJob => status \notin {"Raised", "Optimal", "Feasible"}

\* C11: in every assignment that satisfies a formulation, each non-sentinel job
\* occupies exactly the consecutive timesteps start..completion on its assigned
\* machine and nothing on any other machine, so that start is its first and
\* completion its last occupied timestep and the number of occupied timesteps
\* is completion - start + 1.
C11_OccupationIsInterval ==
    Solved =>
        \A j \in RealJobs :
            /\ \A k \in Machines : \A t \in Timesteps :
                  sol.z[j][k][t] = 1 <=>
                      (sol.x[j][k] = 1 /\ sol.s[j] <= t /\ t <= sol.c[j])
            /\ OccupiedTimesteps(j) = sol.c[j] - sol.s[j] + 1

\* a job assigned to the second of two machines occupies more than one
\* timestep there
C11_Witness ==
    /\ Solved
    /\ inst.m >= 2
    /\ \E j \in RealJobs :
          /\ sol.x[j][2] = 1
          /\ sol.s[j] < sol.c[j]
          /\ sol.z[j][2][sol.s[j]] = 1 /\ sol.z[j][2][sol.c[j]] = 1

\* C12: in every satisfying assignment, every non-sentinel job occupies at
\* most one machine at every timestep: the sum over the machines of
\* z_ikt[job][machine][t] is at most 1.
C12_OneMachineAtATime ==
    Solved =>
        \A j \in RealJobs : \A t \in Timesteps : OccupiedAt(sol.z[j], t) <= 1

\* with two machines, a job occupies the first machine at a timestep and not
\* the second
C12_Witness ==
    /\ Solved
    /\ inst.m >= 2
    /\ \E j \in RealJobs : \E t \in Timesteps :
          sol.z[j][1][t] = 1 /\ sol.z[j][2][t] = 0 /\ OccupiedAt(sol.z[j], t) = 1

\* a column of y without any active edge
NoEdges == [i \in Jobs |-> [k \in Machines |-> 0]]

\* C13: in every assignment that satisfies the extended formulation, an active
\* edge y_ijk[i][j][m] = 1 of a predecessor i (the sentinel included) and a
\* non-sentinel job j implies c_j[i] <= s_j[j]; with no edge active the
\* ordering constraint holds for all times with big_m >= c_j[i] - s_j[j].
C13_EdgeOrdersCompletionBeforeStart ==
    lp.form = "extended" =>
        /\ Solved =>
              \A i \in Jobs : \A j \in RealJobs : \A m \in Machines :
                  sol.y[i][j][m] = 1 => sol.c[i] <= sol.s[j]
        /\ \A i \in Jobs : \A cPred \in TimeVals : \A sJob \in TimeVals :
              lp.big_m >= cPred - sJob => ExtendedOrder(lp, cPred, sJob, NoEdges, i)

\* job i precedes job j through an active edge, and j has no edge towards i
\* although j completes after i starts
C13_Witness ==
    /\ lp.form = "extended"
    /\ Solved
    /\ \E i \in RealJobs : \E j \in RealJobs : \E m \in Machines :
          /\ i # j
          /\ sol.y[i][j][m] = 1
          /\ sol.c[i] <= sol.s[j]
          /\ \A k \in Machines : sol.y[j][i][k] = 0
          /\ sol.c[j] > sol.s[i]

\* every process time of the formulation is strictly positive
PositiveProcessTimes ==
    \A j \in RealJobs : \A k \in Machines : lp.p_times[j][k] > 0

\* C14: in every assignment that satisfies the extended formulation with
\* strictly positive process times, every non-sentinel job has an active
\* predecessor edge; the sentinel is its predecessor on machine m exactly when
\* the job occupies timestep 0 on m; any other predecessor is a different
\* non-sentinel job assigned to the same machine that completes no later than
\* the job starts; so every machine with a job assigned has a job occupying
\* timestep 0.
C14_PredecessorStructure ==
    (Solved /\ lp.form = "extended" /\ PositiveProcessTimes) =>
        /\ \A j \in RealJobs :
              /\ \E i \in Jobs : \E m \in Machines : sol.y[i][j][m] = 1
              /\ \A m \in Machines : sol.y[0][j][m] = 1 <=> sol.z[j][m][0] = 1
              /\ \A i \in RealJobs : \A m \in Machines :
                    sol.y[i][j][m] = 1 =>
                        /\ i # j
                        /\ sol.x[i][m] = 1 /\ sol.x[j][m] = 1
                        /\ sol.c[i] <= sol.s[j]
        /\ \A m \in Machines :
              (\E j \in RealJobs : sol.x[j][m] = 1) =>
                  \E j \in RealJobs : sol.z[j][m][0] = 1

\* with positive process times, one job is first on the machine after the
\* sentinel and another job follows it through an active edge
C14_Witness ==
    /\ Solved
    /\ lp.form = "extended"
    /\ PositiveProcessTimes
    /\ \E i \in RealJobs : \E j \in RealJobs : \E m \in Machines :
          /\ i # j
          /\ sol.y[0][i][m] = 1 /\ sol.z[i][m][0] = 1
          /\ sol.y[i][j][m] = 1 /\ sol.y[0][j][m] = 0 /\ sol.z[j][m][0] = 0

\* C15: in every assignment that satisfies the extended formulation, an edge
\* that touches a non-sentinel job j on machine m, with j as the successor
\* (y_ijk[i][j][m] = 1 for any i, the sentinel included) or as the predecessor
\* (y_ijk[j][i][m] = 1), is active only if x_ik[j][m] = 1.
C15_EdgesOnlyOnAssignedMachine ==
    (Solved /\ lp.form = "extended" /\ lp.big_m >= 1) =>
        \A j \in RealJobs : \A i \in Jobs : \A m \in Machines :
            (sol.y[i][j][m] = 1 \/ sol.y[j][i][m] = 1) => sol.x[j][m] = 1

\* with two machines, a job assigned to the second machine has an active edge
\* from the sentinel and an active edge to the sentinel there, and none on the
\* first machine
C15_Witness ==
    /\ Solved
    /\ lp.form = "extended"
    /\ inst.m >= 2
    /\ \E j \in RealJobs :
          /\ sol.x[j][2] = 1 /\ sol.x[j][1] = 0
          /\ sol.y[0][j][2] = 1 /\ sol.y[j][0][2] = 1
          /\ \A i \in Jobs : sol.y[i][j][1] = 0 /\ sol.y[j][i][1] = 0

\* C16: in every satisfying assignment makespan >= c_j[job] for every
\* non-sentinel job, and in every optimal solution makespan is the maximum
\* completion time over the non-sentinel jobs.
C16_MakespanIsMaxCompletion ==
    Solved =>
        /\ \A j \in RealJobs : sol.makespan >= sol.c[j]
        /\ status = "Optimal" =>
              sol.makespan = npMax({sol.c[j] : j \in RealJobs})

\* an optimal solution in which one job completes before another, whose
\* completion time is the makespan
C16_Witness ==
    /\ status = "Optimal"
    /\ \E i \in RealJobs : \E j \in RealJobs :
          sol.c[i] < sol.c[j] /\ sol.c[j] = sol.makespan /\ sol.makespan > 0

\* jobs = list(job_capacities.keys()) as a list: the key "0" of
\* {"0": 0} | job_capacities, then the jobs in their order
JobList == [p \in 1..(inst.n + 1) |-> p - 1]

\* C17: the sentinel job "0" is the first entry of the model's job list, and
\* c_j["0"] is 0 in every assignment that satisfies the base model, the simple
\* formulation or the extended formulation.
C17_SentinelFirstAndZero ==
    lp.form # "none" =>
        /\ Head(JobList) = 0
        /\ SentinelC = {0}
        /\ Solved => sol.c[Head(JobList)] = 0

\* a solution of the extended formulation in which a job completes after
\* timestep 0 while the sentinel's completion time is 0
C17_Witness ==
    /\ Solved
    /\ lp.form = "extended"
    /\ sol.c[0] = 0
    /\ \E j \in RealJobs : sol.c[j] > 0 /\ sol.y[0][j][1] = 1

(***************************************************************************)
(* _read_solution_file of src/data/example/solution_explorer.py            *)
(*                                                                         *)
(* A solution file holds params.jobs, params.machines and the solved       *)
(* variables.  The variables are looked up by name: x_ik_<index>_<machine>, *)
(* s_j_<index> and c_j_<index>, with <index> the position of the job in    *)
(* params.jobs counted from 1.  Here x[idx][k] is the entry of             *)
(* x_ik_<idx>_<machines[k]>, s[idx] that of s_j_<idx>, c[idx] that of      *)
(* c_j_<idx>.  An entry is <<v>> for the value v, and Absent for a name    *)
(* that the file does not hold.                                            *)
(***************************************************************************)
\* largest start or completion time held by a solution file
MaxFileTime == 1

\* the jobs and machines of the example in the source
FileJobs == <<"A", "B">>
FileMachines == <<"QUITO", "BELEM">>

\* the value of variables.get(name, None) for a missing name; also the value
\* None of assigned_machine
Absent == <<>>

\* the values a file can hold for a time variable
FileTimes == {<<v>> : v \in 0..MaxFileTime} \cup {Absent}

\* the solution files with the first n jobs and the first m machines
SolutionFilesOfSize(n, m) ==
    { [jobs |-> SubSeq(FileJobs, 1, n),
       machines |-> SubSeq(FileMachines, 1, m),
       x |-> x, s |-> s, c |-> c]
      : x \in [1..n -> [1..m -> {<<0>>, <<1>>, Absent}]],
        s \in [1..n -> FileTimes],
        c \in [1..n -> FileTimes] }

SolutionFiles ==
    UNION { SolutionFilesOfSize(nm[1], nm[2])
            : nm \in (0..Len(FileJobs)) \X (0..Len(FileMachines)) }

\* variables.get(name, default)
VarGet(v, default) == IF v = Absent THEN default ELSE v[1]

\* the machine search with variables.get(x_var, 1) in place of (x_var, 0)
AssignedMachineDefaultOne(d, idx) ==
    LET hits == {k \in 1..Len(d.machines) : VarGet(d.x[idx][k], 1) = 1}
    IN  IF hits = {} THEN Absent ELSE <<d.machines[Least(hits)]>>

\* the first machine of params.machines with variables.get(x_var, 0) == 1.0,
\* None when there is none
AssignedMachine(d, idx) ==
    LET hits == {k \in 1..Len(d.machines) : VarGet(d.x[idx][k], 0) = 1}
    IN  IF hits = {} THEN Absent ELSE <<d.machines[Least(hits)]>>

\* the two raise ValueError statements of the loop body
RowRaises(d, idx) ==
    \/ AssignedMachine(d, idx) = Absent
    \/ d.s[idx] = Absent \/ d.c[idx] = Absent

\* the record appended to rows_list for the job at position idx;
\* params.get("job_capcities", {}) finds no capacities, so qubits is None
RowOf(d, idx) ==
    [job |-> d.jobs[idx],
     qubits |-> Absent,
     machine |-> AssignedMachine(d, idx)[1],
     start |-> d.s[idx][1],
     end |-> d.c[idx][1],
     duration |-> d.c[idx][1] - d.s[idx][1] + 1]

\* rows_list after the loop
RowsList(d) == [idx \in 1..Len(d.jobs) |-> RowOf(d, idx)]

InitRead ==
    /\ inst = ScenarioA
    /\ lp = NoLP
    /\ status = "Not Built"
    /\ sol = NoSol
    /\ data \in SolutionFiles
    /\ df = NoFrame
    /\ job_data = NoFile
    /\ accelerators = "dict"
    /\ OtherInit

\* _read_solution_file returns the dataframe and has written job_data.txt
ReadSolutionFile ==
    /\ df.state = "none"
    /\ \A idx \in 1..Len(data.jobs) : ~RowRaises(data, idx)
    /\ df' = [state |-> "returned", rows |-> RowsList(data)]
    /\ job_data' = RowsList(data)
    /\ UNCHANGED <<inst, lp, status, sol, data, accelerators, otherVars>>

\* _read_solution_file raises ValueError inside the loop
ReadSolutionFileRaises ==
    /\ df.state = "none"
    /\ \E idx \in 1..Len(data.jobs) : RowRaises(data, idx)
    /\ df' = [state |-> "raised", rows |-> <<>>]
    /\ UNCHANGED <<inst, lp, status, sol, data, job_data, accelerators, otherVars>>

NextRead ==
    \/ ReadSolutionFile
    \/ ReadSolutionFileRaises

SpecRead == InitRead /\ [][NextRead]_vars

\* C18: _read_solution_file yields one record per job of params.jobs, in
\* order, whose machine is one for which the job's solved x_ik is 1 and whose
\* start, end and duration are the solved s_j, c_j and c_j - s_j + 1; if for
\* some job no machine has x_ik = 1, or its s_j or c_j is absent, it raises and
\* returns no schedule.
C18_ExtractionOrError ==
    df.state # "none" =>
        IF \E idx \in 1..Len(data.jobs) :
              \/ \A k \in 1..Len(data.machines) : data.x[idx][k] # <<1>>
              \/ data.s[idx] = Absent
              \/ data.c[idx] = Absent
        THEN df.state = "raised" /\ df.rows = <<>> /\ job_data = NoFile
        ELSE /\ df.state = "returned"
             /\ Len(df.rows) = Len(data.jobs)
             /\ \A idx \in 1..Len(data.jobs) :
                   /\ df.rows[idx].job = data.jobs[idx]
                   /\ \E k \in 1..Len(data.machines) :
                         /\ df.rows[idx].machine = data.machines[k]
                         /\ data.x[idx][k] = <<1>>
                   /\ <<df.rows[idx].start>> = data.s[idx]
                   /\ <<df.rows[idx].end>> = data.c[idx]
                   /\ df.rows[idx].duration = df.rows[idx].end - df.rows[idx].start + 1

\* a file with two jobs is read: the first job has x_ik = 1 on both machines,
\* the second only on the second machine while its x_ik on the first is absent
C18_Witness ==
    /\ df.state = "returned"
    /\ Len(df.rows) = 2
    /\ Len(data.machines) = 2
    /\ data.x[1][1] = <<1>> /\ data.x[1][2] = <<1>>
    /\ data.x[2][1] = Absent /\ data.x[2][2] = <<1>>
    /\ df.rows[2].machine = "BELEM"
    /\ df.rows[2].duration = 2

\* the process-time or the setup-time table does not cover exactly the jobs
\* and machines of the capacity mappings
TablesMismatch ==
    \/ Len(inst.process_times) # inst.n
    \/ \E j \in 1..Len(inst.process_times) : Len(inst.process_times[j]) # inst.m
    \/ DOMAIN inst.setup_times # Jobs
    \/ \E i \in DOMAIN inst.setup_times :
          \/ DOMAIN inst.setup_times[i] # Jobs
          \/ \E j \in DOMAIN inst.setup_times[i] :
                DOMAIN inst.setup_times[i][j] # Machines

\* C19: if the process-time or setup-time table passed to set_up_simple_lp or
\* set_up_extended_lp covers other jobs or machines than the capacity
\* mappings (fewer or more rows or columns), the extension fails before
\* adding any constraint and leaves the model unchanged.
C19_MismatchedTablesFailFast ==
    TablesMismatch =>
        /\ lp.form \notin {"simple", "extended"}
        /\ status = "Raised" => lp = BaseLP

(***************************************************************************)
(* set_up_base_lp: the dispatch on the type of the accelerators argument   *)
(***************************************************************************)
\* the types of the accelerators argument: the two supported ones and another
AcceleratorTypes == {"list", "dict", "tuple"}

InitBase ==
    /\ inst \in GeneratedInstances
    /\ lp = NoLP
    /\ status = "Not Built"
    /\ sol = NoSol
    /\ data = NoData
    /\ df = NoFrame
    /\ job_data = NoFile
    /\ accelerators \in AcceleratorTypes
    /\ OtherInit

\* set_up_base_lp / _set_up_base_lp_exec / _define_lp
DefineLPExec ==
    /\ lp.form = "none"
    /\ status = "Not Built"
    /\ Dispatch(accelerators) = "exec"
    /\ lp' = ExecLP
    /\ status' = "Not Solved"
    /\ UNCHANGED <<inst, sol>>
    /\ UNCHANGED <<accelerators, explorerVars, otherVars>>

\* set_up_base_lp raises NotImplementedError: no model is returned
SetUpBaseRaises ==
    /\ lp.form = "none"
    /\ status = "Not Built"
    /\ Dispatch(accelerators) = "raise"
    /\ status' = "Raised"
    /\ UNCHANGED <<inst, lp, sol>>
    /\ UNCHANGED <<accelerators, explorerVars, otherVars>>

NextBase ==
    \/ DefineLP
    \/ DefineLPExec
    \/ SetUpBaseRaises

SpecBase == InitBase /\ [][NextBase]_vars

\* C20: set_up_base_lp with an accelerators argument that is neither a list
\* nor a dict raises before any variable or constraint is created and returns
\* no model; a list takes the provider path (_set_up_base_lp_exec) and a dict
\* the capacity-mapping path (_set_up_base_lp_info).
C20_BaseDispatch ==
    status # "Not Built" =>
        /\ accelerators \notin {"list", "dict"} => (status = "Raised" /\ lp = NoLP)
        /\ accelerators = "list" => (lp.form # "none" /\ lp.path = "exec")
        /\ accelerators = "dict" => (lp.form # "none" /\ lp.path = "info")

\* set_up_base_lp has been called with a tuple and has raised without a model
C20_Witness ==
    /\ accelerators = "tuple"
    /\ status = "Raised"
    /\ lp = NoLP
    /\ inst.n >= 2

(***************************************************************************)
(* Building the model: SpecBuild follows the builder and its extensions    *)
(* without the solver, and lets the caller build a second time from the    *)
(* same inputs.                                                            *)
(***************************************************************************)
\* the caller keeps the instance it has built and starts a second build from
\* the same inputs
BuildAgain ==
    /\ previous = <<>>
    /\ lp.form # "none"
    /\ previous' = <<lp>>
    /\ lp' = NoLP
    /\ status' = "Not Built"
    /\ UNCHANGED <<inst, sol, accelerators, explorerVars, assembleVars, providerVars>>

NextBuild ==
    \/ DefineLP
    \/ SetUpSimple
    \/ SetUpSimpleRaises
    \/ SetUpExtended
    \/ SetUpExtendedRaises
    \/ BuildAgain

SpecBuild == Init /\ [][NextBuild]_vars

\* C21: set_up_simple_lp adds exactly one constraint per non-sentinel job and
\* set_up_extended_lp only adds constraints: in every step that extends the
\* base model the objective is unchanged, every variable is still there, the
\* constraints the model had are the first constraints of the extended model,
\* unchanged and in their order, and the simple extension has n more.
C21_ExtensionsOnlyAdd ==
    [][ (lp.form = "base" /\ lp'.form \in {"simple", "extended"}) =>
          /\ lp'.problem.objective = lp.problem.objective
          /\ lp.problem.variables \subseteq lp'.problem.variables
          /\ Len(lp.problem.constraints) <= Len(lp'.problem.constraints)
          /\ SubSeq(lp'.problem.constraints, 1, Len(lp.problem.constraints))
                = lp.problem.constraints
          /\ lp'.form = "simple" =>
                Len(lp'.problem.constraints)
                    = Len(lp.problem.constraints) + inst.n ]_vars

\* set_up_simple_lp has extended the base model of two jobs by exactly two
\* constraints behind the ones it had
C21_Witness ==
    /\ lp.form = "simple"
    /\ inst.n = 2
    /\ inst.m >= 1
    /\ Len(lp.problem.constraints) = Len(DefineLPConstraints) + 2
    /\ SubSeq(lp.problem.constraints, 1, Len(DefineLPConstraints))
          = DefineLPConstraints

C26_JobMachineTimestepOrder ==
    LET \* the loop indices of a constraint as (job, machine, timestep), 0
        \* for an index the constraint does not have
        LoopKey(c) ==
            << IF "job" \in DOMAIN c.at THEN c.at.job ELSE 0,
               IF "machine" \in DOMAIN c.at THEN c.at.machine ELSE 0,
               IF "timestep" \in DOMAIN c.at THEN c.at.timestep ELSE 0 >>
        \* a comes no later than b in the order job, machine, timestep
        LoopKeyLeq(a, b) ==
            \/ a[1] < b[1]
            \/ a[1] = b[1] /\ a[2] < b[2]
            \/ a[1] = b[1] /\ a[2] = b[2] /\ a[3] <= b[3]
    IN  lp.form = "base" =>
            \A p, q \in 1..Len(lp.problem.constraints) :
                (p < q /\ lp.problem.constraints[p].name
                            = lp.problem.constraints[q].name)
                    => LoopKeyLeq(LoopKey(lp.problem.constraints[p]),
                                  LoopKey(lp.problem.constraints[q]))

(***************************************************************************)
(* src/src/tools/assembling.py: assemble_circuit and assemble_job.         *)
(* A circuit is its quantum registers, its classical registers (each a     *)
(* name and a size) and the number of its operations; qubit q of a circuit *)
(* is position q + 1 of a sequence.  SpecAssemble applies both functions   *)
(* to bounded lists of jobs; assemble_circuit gets the jobs' circuits.     *)
(***************************************************************************)
\* circuits per list
MaxCircuits == 2
\* size of a register
MaxRegSize == 2

RECURSIVE SumSeq(_)
\* sum(s)
SumSeq(s) == IF s = <<>> THEN 0 ELSE Head(s) + SumSeq(Tail(s))

\* QuantumCircuit.num_qubits, QuantumCircuit.num_clbits
NumQubits(circuit) == SumSeq([r \in 1..Len(circuit.qregs) |-> circuit.qregs[r].size])
NumClbits(circuit) == SumSeq([r \in 1..Len(circuit.cregs) |-> circuit.cregs[r].size])

\* input circuits: one quantum register "q", no or one classical register
\* "c", and the 2n operations of create_ghz(n) (H, n - 1 CX, n measurements)
InputCircuits ==
    { [qregs |-> << [name |-> "q", size |-> a] >>, cregs |-> cr, ops |-> 2 * a]
      : a \in 1..MaxRegSize,
        cr \in {<<>>} \cup { << [name |-> "c", size |-> b] >> : b \in 1..MaxRegSize } }

\* create_jobs_from_experiment: the CircuitJob of the circuit at position idx
\* (index idx - 1), with a single Pauli on the circuit's qubits
CircuitJobOf(circuit, idx) ==
    [index |-> idx - 1,
     instance |-> circuit,
     coefficient |-> idx,
     n_shots |-> 1024,
     observable |-> [q \in 1..NumQubits(circuit) |-> IF idx = 1 THEN "Z" ELSE "X"],
     partition_label |-> IF idx = 1 THEN "A" ELSE "B",
     uuid |-> 100 + idx,
     cregs |-> Len(circuit.cregs)]

\* the lists of up to MaxCircuits jobs
InputJobs ==
    UNION { { [idx \in 1..len |-> CircuitJobOf(cs[idx], idx)]
              : cs \in [1..len -> InputCircuits] }
            : len \in 0..MaxCircuits }

\* circuits.append(job.instance)
CircuitsOf(jobs) == [k \in 1..Len(jobs) |-> jobs[k].instance]

RECURSIVE LastCreg(_, _)
\* the loop variable creg after "for creg in circuit.cregs" of circuit k: the
\* last classical register of the nearest circuit up to k that has one, <<>>
\* while the name is unbound
LastCreg(circuits, k) ==
    IF k = 0 THEN <<>>
    ELSE IF Len(circuits[k].cregs) > 0
         THEN << circuits[k].cregs[Len(circuits[k].cregs)] >>
         ELSE LastCreg(circuits, k - 1)

\* QuantumRegister(creg.size, ...) reads a name that no loop has bound:
\* UnboundLocalError
CregUnbound(circuits) ==
    \E k \in 1..Len(circuits) :
        Len(circuits[k].qregs) > 0 /\ LastCreg(circuits, k) = <<>>

\* composed_circuit.add_register(QuantumRegister(creg.size, f"{idx}_{qreg.name}"))
QuantumRegisters(circuits) ==
    SeqCat([k \in 1..Len(circuits) |->
              [r \in 1..Len(circuits[k].qregs) |->
                 [name |-> <<k - 1, circuits[k].qregs[r].name>>,
                  size |-> LastCreg(circuits, k)[1].size]]],
           1, Len(circuits))

\* composed_circuit.add_register(ClassicalRegister(creg.size, f"{idx}_{creg.name}"))
ClassicalRegisters(circuits) ==
    SeqCat([k \in 1..Len(circuits) |->
              [r \in 1..Len(circuits[k].cregs) |->
                 [name |-> <<k - 1, circuits[k].cregs[r].name>>,
                  size |-> circuits[k].cregs[r].size]]],
           1, Len(circuits))

\* the value of "qubits" (or "clbits") when circuit k is composed
Offset(sizes, k) == SumSeq(SubSeq(sizes, 1, k - 1))

\* composed_circuit.compose(circuit, qubits=..., clbits=...) raises
\* CircuitError when a qubit or clbit index is not in the composed circuit
ComposeRaises(circuits) ==
    \E k \in 1..Len(circuits) :
        \/ Offset([i \in 1..Len(circuits) |-> NumQubits(circuits[i])], k + 1)
              > SumSeq([r \in 1..Len(QuantumRegisters(circuits)) |->
                          QuantumRegisters(circuits)[r].size])
        \/ Offset([i \in 1..Len(circuits) |-> NumClbits(circuits[i])], k + 1)
              > SumSeq([r \in 1..Len(ClassicalRegisters(circuits)) |->
                          ClassicalRegisters(circuits)[r].size])

\* assemble_circuit raises
AssembleCircuitRaises(circuits) ==
    IF CregUnbound(circuits) THEN TRUE ELSE ComposeRaises(circuits)

\* the circuit that assemble_circuit returns; placed[k] is the list of qubits
\* that circuit k is composed onto
AssembleCircuitOf(circuits) ==
    [state |-> "returned",
     qregs |-> QuantumRegisters(circuits),
     cregs |-> ClassicalRegisters(circuits),
     ops |-> SumSeq([k \in 1..Len(circuits) |-> circuits[k].ops]),
     placed |-> [k \in 1..Len(circuits) |->
                   LET qubits == Offset([i \in 1..Len(circuits) |->
                                           NumQubits(circuits[i])], k)
                   IN  [q \in 1..NumQubits(circuits[k]) |-> qubits + q - 1]]]

\* slice(start, stop)
Slice(start, stop) == [start |-> start, stop |-> stop]

\* PauliList.expand(other): other is put on the qubits after those of self
Expand(self, other) == self \o other

RECURSIVE ExpandAll(_)
\* observable = PauliList(""), then observable.expand(job.observable) per job
ExpandAll(jobs) ==
    IF jobs = <<>> THEN <<>>
    ELSE Expand(ExpandAll(SubSeq(jobs, 1, Len(jobs) - 1)), jobs[Len(jobs)].observable)

\* the CombineJob that assemble_job returns
AssembleJobOf(jobs) ==
    [state |-> "returned",
     n_shots |-> jobs[1].n_shots,
     indices |-> [k \in 1..Len(jobs) |-> jobs[k].index],
     coefficients |-> [k \in 1..Len(jobs) |-> jobs[k].coefficient],
     mapping |-> [k \in 1..Len(jobs) |->
                    LET qubit_count ==
                          Offset([i \in 1..Len(jobs) |-> NumQubits(jobs[i].instance)], k)
                    IN  Slice(qubit_count, qubit_count + NumQubits(jobs[k].instance))],
     partition_labels |-> [k \in 1..Len(jobs) |-> jobs[k].partition_label],
     uuids |-> [k \in 1..Len(jobs) |-> jobs[k].uuid],
     cregs |-> [k \in 1..Len(jobs) |-> jobs[k].cregs],
     instance |-> AssembleCircuitOf(CircuitsOf(jobs)),
     observable |-> ExpandAll(jobs)]

InitAssemble ==
    /\ inst = ScenarioA
    /\ lp = NoLP
    /\ status = "Not Built"
    /\ sol = NoSol
    /\ data = NoData
    /\ df = NoFrame
    /\ job_data = NoFile
    /\ accelerators = "dict"
    /\ previous = <<>>
    /\ circuit_jobs \in InputJobs
    /\ composed_circuit = [state |-> "none"]
    /\ combined_job = [state |-> "none"]
    /\ ProviderIdle

\* assemble_circuit(circuits) returns
AssembleCircuit ==
    /\ composed_circuit.state = "none"
    /\ ~AssembleCircuitRaises(CircuitsOf(circuit_jobs))
    /\ composed_circuit' = AssembleCircuitOf(CircuitsOf(circuit_jobs))
    /\ UNCHANGED <<inst, lp, status, sol, accelerators, explorerVars, previous,
                   circuit_jobs, combined_job, providerVars>>

\* assemble_circuit(circuits) raises UnboundLocalError or CircuitError
AssembleCircuitRaised ==
    /\ composed_circuit.state = "none"
    /\ AssembleCircuitRaises(CircuitsOf(circuit_jobs))
    /\ composed_circuit' = [state |-> "raised"]
    /\ UNCHANGED <<inst, lp, status, sol, accelerators, explorerVars, previous,
                   circuit_jobs, combined_job, providerVars>>

\* assemble_job(circuit_jobs) returns
AssembleJob ==
    /\ combined_job.state = "none"
    /\ circuit_jobs # <<>>
    /\ ~AssembleCircuitRaises(CircuitsOf(circuit_jobs))
    /\ combined_job' = AssembleJobOf(circuit_jobs)
    /\ UNCHANGED <<inst, lp, status, sol, accelerators, explorerVars, previous,
                   circuit_jobs, composed_circuit, providerVars>>

\* assemble_job(circuit_jobs) raises: IndexError on circuit_jobs[0] of an
\* empty list, or the error of assemble_circuit
AssembleJobRaised ==
    /\ combined_job.state = "none"
    /\ circuit_jobs = <<>> \/ AssembleCircuitRaises(CircuitsOf(circuit_jobs))
    /\ combined_job' = [state |-> "raised"]
    /\ UNCHANGED <<inst, lp, status, sol, accelerators, explorerVars, previous,
                   circuit_jobs, composed_circuit, providerVars>>

NextAssemble ==
    \/ AssembleCircuit
    \/ AssembleCircuitRaised
    \/ AssembleJob
    \/ AssembleJobRaised

SpecAssemble == InitAssemble /\ [][NextAssemble]_vars

\* C23: assemble_circuit(circuits) returns, for any list of circuits whatever
\* the sizes of their quantum and classical registers, a circuit whose qubit
\* count is the sum of the inputs' qubit counts, whose operation count is the
\* sum of the inputs' operation counts, and in which circuit k lies on the
\* qubits that follow those of the circuits before it.
C23_AssembleCircuit ==
    composed_circuit.state # "none" =>
        LET circuits == CircuitsOf(circuit_jobs)
            \* the qubits of the first k circuits
            QubitsBefore(k) == SumSeq([i \in 1..k |-> NumQubits(circuits[i])])
        IN  /\ composed_circuit.state = "returned"
            /\ NumQubits(composed_circuit) = QubitsBefore(Len(circuits))
            /\ composed_circuit.ops
                  = SumSeq([k \in 1..Len(circuits) |-> circuits[k].ops])
            /\ \A k \in 1..Len(circuits) :
                  composed_circuit.placed[k]
                     = [q \in 1..NumQubits(circuits[k]) |->
                          QubitsBefore(k - 1) + q - 1]

\* C24: assemble_job(jobs) returns a combined job whose circuit has as many
\* qubits as the input jobs together and whose observable is as long, whose
\* mapping[k] is the slice of the qubits of job k (consecutive, in order,
\* covering 0..total-1), and whose indices, coefficients, partition_labels,
\* uuids and cregs have the entry of each input job in input order.
C24_AssembleJob ==
    (combined_job.state # "none" /\ circuit_jobs # <<>>) =>
        LET circuits == CircuitsOf(circuit_jobs)
            \* the qubits of the first k jobs
            QubitsUpTo(k) == SumSeq([i \in 1..k |-> NumQubits(circuits[i])])
            total == QubitsUpTo(Len(circuits))
        IN  /\ combined_job.state = "returned"
            /\ NumQubits(combined_job.instance) = total
            /\ Len(combined_job.observable) = total
            /\ \A k \in 1..Len(circuit_jobs) :
                  /\ combined_job.mapping[k]
                        = Slice(QubitsUpTo(k - 1), QubitsUpTo(k))
                  /\ combined_job.indices[k] = circuit_jobs[k].index
                  /\ combined_job.coefficients[k] = circuit_jobs[k].coefficient
                  /\ combined_job.partition_labels[k] = circuit_jobs[k].partition_label
                  /\ combined_job.uuids[k] = circuit_jobs[k].uuid
                  /\ combined_job.cregs[k] = circuit_jobs[k].cregs
            /\ Len(combined_job.mapping) = Len(circuit_jobs)
            /\ Len(combined_job.indices) = Len(circuit_jobs)
            /\ Len(combined_job.coefficients) = Len(circuit_jobs)
            /\ Len(combined_job.partition_labels) = Len(circuit_jobs)
            /\ Len(combined_job.uuids) = Len(circuit_jobs)
            /\ Len(combined_job.cregs) = Len(circuit_jobs)

\* C25: in the table of _get_setup_times, read by set_up_extended_lp as
\* s_times[predecessor][job][machine], the entry charged when the sentinel is
\* the predecessor of a job and the entry of a job as its own predecessor are
\* the default constant on every machine, and the max-reduction of the simple
\* extension for a job leaves out exactly the rows that hold the default.
C25_SentinelPredecessorIsDefault ==
    (/\ lp.form = "extended"
     /\ \E seed \in 0..1 :
           inst.setup_times
               = GetSetupTimes(inst.jobCap, inst.n, inst.m, DefaultSetup, seed)) =>
        /\ \A j \in RealJobs : \A k \in Machines :
              /\ lp.s_times[0][j][k] = DefaultSetup
              /\ lp.s_times[j][j][k] = DefaultSetup
        /\ \A j \in RealJobs : \A t \in Jobs :
              (t \notin OtherRows(j))
                 <=> (\A k \in Machines : inst.setup_times[j][t][k] = DefaultSetup)

\* C27: with big_m >= T the big-M constraints of the base model exclude no
\* valid schedule: every schedule that gives each job one machine and a
\* contiguous interval of timesteps inside [0, T) long enough for its process
\* and setup time, and that respects the capacities, corresponds to a
\* satisfying assignment of the simple formulation (x and z mark the machine
\* and the interval, s and c are its first and last timestep).
C27_ValidSchedulesSatisfySimple ==
    (lp.form = "simple" /\ inst.big_m >= inst.T) =>
        LET Intervals(j) ==
                { iv \in [machine : Machines, first : Timesteps, last : Timesteps] :
                    /\ iv.first <= iv.last
                    /\ iv.last - iv.first + 1
                          >= lp.p_times[j][iv.machine] + lp.s_times[j][iv.machine] }
            RowOfInterval(iv) ==
                [x |-> [k \in Machines |-> IF k = iv.machine THEN 1 ELSE 0],
                 z |-> [k \in Machines |-> [t \in Timesteps |->
                          IF k = iv.machine /\ iv.first <= t /\ t <= iv.last
                          THEN 1 ELSE 0]],
                 s |-> iv.first,
                 c |-> iv.last]
        IN  \A v \in Product([j \in RealJobs |-> Intervals(j)], inst.n) :
               \A q \in {[j \in RealJobs |-> RowOfInterval(v[j])]} :
                  (\A t \in Timesteps : \A k \in Machines : Constraint11(q, t, k))
                     => \A j \in RealJobs :
                           /\ Constraint3(q[j].x)
                           /\ \A k \in Machines : Constraint8(q[j].z[k], q[j].x[k])
                           /\ BaseRowOK(q[j].z, q[j].s, q[j].c)
                           /\ SimpleConstraint(lp, j, q[j].x, q[j].s, q[j].c)

\* C28: set_up_simple_lp succeeds on every instance with at least one
\* non-sentinel job (and process times for every job); with exactly one job it
\* does not raise but adds that job's constraint with the overestimated setup
\* time 0 on every machine.
C28_SimpleSucceedsOnOneJob ==
    (inst.n >= 1 /\ ~PTimesRaises) =>
        /\ status # "Raised"
        /\ (inst.n = 1 /\ lp.form = "simple") =>
              \A k \in Machines : lp.s_times[1][k] = 0

(***************************************************************************)
(* src/src/provider/accelerator_group.py: run_experiments and run_jobs.    *)
(* group is self.accelerators, one entry per accelerator.  A call makes a  *)
(* multiprocessing.Pool of len(accelerators) worker processes; the parent  *)
(* numbers the processes it creates from 1 on (process_counter), so the    *)
(* workers of a pool have the identities first .. first + len - 1.  Worker *)
(* w is the w-th process of the pool.  A task is one apply_async; an idle  *)
(* worker takes the oldest queued task.  Accelerator a of the code is      *)
(* a + 1 here, 0 for none.  An optional value (result_counts) is <<v>>     *)
(* when set and <<>> when None.                                            *)
(***************************************************************************)
\* accelerators of a group
MaxAccelerators == 2
\* experiments (or scheduled jobs) of a call
MaxExperiments == 2
\* circuits of an experiment
MaxExpCircuits == 2
\* pools that the process creates
MaxPools == 2

\* the lists of up to MaxExperiments experiments, experiment e with uuid e
ExperimentLists ==
    UNION { { [e \in 1..len |->
                 [uuid |-> e, circuits |-> [c \in 1..cs[e] |-> c], result_counts |-> <<>>]]
              : cs \in [1..len -> 0..MaxExpCircuits] }
            : len \in 0..MaxExperiments }

\* the lists of up to MaxExperiments scheduled jobs for n accelerators; qpu n
\* is not the index of an accelerator
ScheduledJobLists(n) ==
    UNION { { [e \in 1..len |->
                 [job |-> [uuid |-> e, result_counts |-> <<>>], qpu |-> qs[e]]]
              : qs \in [1..len -> 0..n] }
            : len \in 0..MaxExperiments }

InitProvider ==
    /\ inst = ScenarioA
    /\ lp = NoLP
    /\ status = "Not Built"
    /\ sol = NoSol
    /\ data = NoData
    /\ df = NoFrame
    /\ job_data = NoFile
    /\ accelerators = "dict"
    /\ previous = <<>>
    /\ circuit_jobs = <<>>
    /\ composed_circuit = [state |-> "none"]
    /\ combined_job = [state |-> "none"]
    /\ group \in { [a \in 1..n |-> 5] : n \in 1..MaxAccelerators }
    /\ \/ experiments \in ExperimentLists /\ scheduled_jobs = <<>>
       \/ experiments = <<>> /\ scheduled_jobs \in ScheduledJobLists(Len(group))
    /\ process_counter = 0
    /\ tasks = <<>>
    /\ call = [fn |-> "none", state |-> "idle", first |-> 0,
               finished |-> <<>>, results |-> <<>>]

\* every worker of every pool uses accelerator 0
PoolIdShared(w) == 0

\* pool_id = current_process()._identity[0] - 1 in worker w of the pool
PoolId(w) == call.first + (w - 1) - 1

\* results = [result.get() for result in results]
Results == [i \in 1..Len(tasks) |-> tasks[i].exp]

\* run_experiments up to the first result.get(): the pool is made and every
\* experiment is submitted, in input order
RunExperiments ==
    /\ call.state # "waiting"
    /\ Len(group) >= 1
    /\ process_counter + Len(group) <= MaxPools * Len(group)
    /\ process_counter' = process_counter + Len(group)
    /\ tasks' = [i \in 1..Len(experiments) |->
                   [state |-> "queued", worker |-> 0, on |-> 0, ran |-> <<>>,
                    failed |-> FALSE, exp |-> experiments[i]]]
    /\ call' = [fn |-> "run_experiments", state |-> "waiting",
                first |-> process_counter + 1, finished |-> <<>>, results |-> <<>>]
    /\ UNCHANGED <<inst, lp, status, sol, accelerators, explorerVars, previous,
                   assembleVars, group, experiments, scheduled_jobs>>

\* an idle worker of the pool takes the oldest queued task and enters _run_func
TakeTask ==
    /\ call.state = "waiting"
    /\ \E w \in 1..Len(group) : \E i \in 1..Len(tasks) :
          /\ \A j \in 1..Len(tasks) :
                ~(tasks[j].state = "running" /\ tasks[j].worker = w)
          /\ tasks[i].state = "queued"
          /\ \A j \in 1..(i - 1) : tasks[j].state # "queued"
          /\ tasks' = [tasks EXCEPT ![i].state = "running", ![i].worker = w]
    /\ UNCHANGED <<inst, lp, status, sol, accelerators, explorerVars, previous,
                   assembleVars, group, experiments, scheduled_jobs,
                   process_counter, call>>

\* _run_func reaches accs[pool_id].run_and_get_counts(circuit) for the next
\* circuit: IndexError (caught, the experiment is returned as it was) when
\* pool_id is no index of accs
BeginCircuit ==
    /\ call.state = "waiting"
    /\ \E i \in 1..Len(tasks) :
          /\ tasks[i].state = "running"
          /\ tasks[i].on = 0
          /\ Len(tasks[i].ran) < Len(tasks[i].exp.circuits)
          /\ IF PoolId(tasks[i].worker) >= Len(group)
             THEN /\ tasks' = [tasks EXCEPT ![i].state = "ready", ![i].failed = TRUE]
                  /\ call' = [call EXCEPT !.finished = Append(@, i)]
             ELSE /\ tasks' = [tasks EXCEPT ![i].on = PoolId(tasks[i].worker) + 1]
                  /\ call' = call
    /\ UNCHANGED <<inst, lp, status, sol, accelerators, explorerVars, previous,
                   assembleVars, group, experiments, scheduled_jobs, process_counter>>

\* run_and_get_counts returns the counts, or raises an Exception that
\* _run_func catches: the experiment is returned as it was
EndCircuit ==
    /\ call.state = "waiting"
    /\ \E i \in 1..Len(tasks) : \E ok \in BOOLEAN :
          /\ tasks[i].on # 0
          /\ IF ok
             THEN /\ tasks' = [tasks EXCEPT ![i].ran = Append(@, tasks[i].on),
                                            ![i].on = 0]
                  /\ call' = call
             ELSE /\ tasks' = [tasks EXCEPT ![i].state = "ready", ![i].failed = TRUE,
                                            ![i].on = 0]
                  /\ call' = [call EXCEPT !.finished = Append(@, i)]
    /\ UNCHANGED <<inst, lp, status, sol, accelerators, explorerVars, previous,
                   assembleVars, group, experiments, scheduled_jobs, process_counter>>

\* exp.result_counts = [...] once every circuit has run, and return exp
FinishTask ==
    /\ call.state = "waiting"
    /\ \E i \in 1..Len(tasks) :
          /\ tasks[i].state = "running"
          /\ tasks[i].on = 0
          /\ Len(tasks[i].ran) = Len(tasks[i].exp.circuits)
          /\ tasks' = [tasks EXCEPT ![i].state = "ready",
                                    ![i].exp.result_counts = <<tasks[i].ran>>]
          /\ call' = [call EXCEPT !.finished = Append(@, i)]
    /\ UNCHANGED <<inst, lp, status, sol, accelerators, explorerVars, previous,
                   assembleVars, group, experiments, scheduled_jobs, process_counter>>

\* every result.get() has returned: run_experiments leaves the with block and
\* returns the results
ReturnResults ==
    /\ call.fn = "run_experiments"
    /\ call.state = "waiting"
    /\ \A i \in 1..Len(tasks) : tasks[i].state = "ready"
    /\ call' = [call EXCEPT !.state = "returned", !.results = Results]
    /\ UNCHANGED <<inst, lp, status, sol, accelerators, explorerVars, previous,
                   assembleVars, group, experiments, scheduled_jobs,
                   process_counter, tasks>>

\* jobs_per_qpu[qpu] = [job for job in jobs if job.qpu == qpu]
JobsPerQpu(qpu) == SelectSeq(scheduled_jobs, LAMBDA job : job.qpu = qpu)

\* run_jobs: with no row of zip_longest(*jobs_per_qpu.values()) it returns
\* the empty list; otherwise the first round of the loop submits a task and
\* then calls result.append(result) on the AsyncResult: AttributeError, the
\* with block terminates the pool and run_jobs raises
RunJobs ==
    /\ call.state # "waiting"
    /\ Len(group) >= 1
    /\ process_counter + Len(group) <= MaxPools * Len(group)
    /\ process_counter' = process_counter + Len(group)
    /\ tasks' = <<>>
    /\ call' = [fn |-> "run_jobs",
                state |-> IF \A qpu \in 0..(Len(group) - 1) : JobsPerQpu(qpu) = <<>>
                          THEN "returned" ELSE "raised",
                first |-> process_counter + 1, finished |-> <<>>, results |-> <<>>]
    /\ UNCHANGED <<inst, lp, status, sol, accelerators, explorerVars, previous,
                   assembleVars, group, experiments, scheduled_jobs>>

NextProvider ==
    \/ RunExperiments
    \/ TakeTask
    \/ BeginCircuit
    \/ EndCircuit
    \/ FinishTask
    \/ ReturnResults
    \/ RunJobs

SpecProvider == InitProvider /\ [][NextProvider]_vars

\* C29: run_jobs runs every scheduled job on the accelerator of its qpu index
\* and returns them with their result counts: the call does not raise, and
\* every job whose qpu is the index of an accelerator is exactly once in the
\* returned list, with result counts.
C29_RunJobsReturnsEveryJob ==
    (call.fn = "run_jobs" /\ call.state # "waiting") =>
        /\ call.state = "returned"
        /\ \A k \in 1..Len(scheduled_jobs) :
              scheduled_jobs[k].qpu \in 0..(Len(group) - 1) =>
                 /\ Cardinality({r \in 1..Len(call.results) :
                                   call.results[r].uuid = scheduled_jobs[k].job.uuid}) = 1
                 /\ \A r \in 1..Len(call.results) :
                       call.results[r].uuid = scheduled_jobs[k].job.uuid
                          => call.results[r].result_counts # <<>>

\* C30: run_experiments returns one experiment per input experiment, in input
\* order, whatever the order in which the workers finish; the circuits of one
\* experiment all run on one accelerator, the one of the worker that took the
\* experiment; no accelerator runs two experiments at the same time; and an
\* exception while the circuits of an experiment run does not make the call
\* raise but leaves the result_counts of that experiment as they were.
C30_RunExperiments ==
    call.fn = "run_experiments" =>
        /\ call.state # "raised"
        /\ call.state = "returned" =>
              /\ Len(call.results) = Len(experiments)
              /\ \A i \in 1..Len(experiments) :
                    /\ call.results[i].uuid = experiments[i].uuid
                    /\ call.results[i].circuits = experiments[i].circuits
                    /\ tasks[i].failed =>
                          call.results[i].result_counts = experiments[i].result_counts
                    /\ ~tasks[i].failed =>
                          /\ call.results[i].result_counts # <<>>
                          /\ Len(call.results[i].result_counts[1])
                                = Len(experiments[i].circuits)
        /\ \A i \in 1..Len(tasks) :
              /\ \A c \in 1..Len(tasks[i].ran) :
                    tasks[i].ran[c] = PoolId(tasks[i].worker) + 1
              /\ tasks[i].on # 0 => tasks[i].on = PoolId(tasks[i].worker) + 1
              /\ \A j \in 1..Len(tasks) :
                    (i # j /\ tasks[i].on # 0) => tasks[i].on # tasks[j].on

\* run_experiments has returned two experiments in input order although the
\* second one finished first, on another accelerator; the first one raised
\* after one of its two circuits had run and has kept its result_counts
C30_Witness ==
    /\ call.fn = "run_experiments"
    /\ call.state = "returned"
    /\ Len(group) = 2
    /\ Len(experiments) = 2
    /\ call.finished = <<2, 1>>
    /\ call.results[1].uuid = 1
    /\ tasks[1].failed
    /\ Len(tasks[1].ran) = 1
    /\ call.results[1].result_counts = <<>>
    /\ ~tasks[2].failed
    /\ Len(call.results[2].result_counts[1]) = 2
    /\ tasks[1].worker # tasks[2].worker

====
